---- MODULE Spec2Model ----
(***************************************************************************)
(* State-machine model of src/app.py: the Flask/SQLAlchemy e-commerce API  *)
(* (users, products, orders and the order_product association table).      *)
(*                                                                         *)
(* The relational store is the one the application configures by default   *)
(* (MySQL/InnoDB through mysql+mysqlconnector, app.py:15-18): tables are    *)
(* created from the declared models, so primary keys, the UNIQUE email,    *)
(* NOT NULL columns and FOREIGN KEYs (ON DELETE RESTRICT) are enforced by  *)
(* the store, every request runs in one transaction of its own session,    *)
(* and a transaction reads from the snapshot taken by its first SELECT     *)
(* (REPEATABLE READ) while its writes are checked against the committed    *)
(* rows.  Each request handler is split where the code gives control to    *)
(* the store: its reads (the snapshot), then db.session.commit() (flush    *)
(* and COMMIT, atomic in the store).  Handlers of different workers        *)
(* interleave at those points.                                             *)
(*                                                                         *)
(* Not modelled: order_date (server clock), the JSON rendering of a        *)
(* response after the commit, loss of the database connection.             *)
(***************************************************************************)
EXTENDS Integers, Sequences, FiniteSets, Bags, TLC

\* ------------------------------------------------------------------ bounds
\* Number of requests the server receives in one behaviour.
MaxRequests == 3
\* Ids that requests name in their paths and bodies are drawn from 1..MaxId.
MaxId == 2

\* The request contexts (threads of the development server): Spec runs the
\* requests of two of them concurrently, SpecAdd those of all three.
Workers == {"w1", "w2", "w3"}
Concurrent == {"w1", "w2"}

\* ------------------------------------------------------- program constants
NameMax == 100
AddressMax == 200
EmailMax == 100
ProductNameMax == 100
PriceScale == 100

\* ------------------------------------------------------------- JSON values
\* A JSON value of a request body: a string (its characters), an integer,
\* null, or a field that is absent from the body.
JStr(s) == [t |-> "str", s |-> s, n |-> 0]
JInt(n) == [t |-> "int", s |-> <<>>, n |-> n]
JNull == [t |-> "null", s |-> <<>>, n |-> 0]
Missing == [t |-> "missing", s |-> <<>>, n |-> 0]

Repeat(c, k) == [i \in 1..k |-> c]

MaxOf(S) == CHOOSE x \in S : \A y \in S : y <= x

\* ---------------------------------------------------------------- schemas
\* validate.Length(min=..., max=...)
Length(s, min, max) == Len(s) >= min /\ Len(s) <= max

IndexesOf(s, c) == {i \in 1..Len(s) : s[i] = c}

\* fields.Email: the part before the last "@" is a non-empty run of
\* characters without "@" or blanks, the part after it is a dotted host name
\* with non-empty labels (or "localhost").
EmailUserPart(u) ==
    /\ Len(u) > 0
    /\ \A i \in 1..Len(u) : u[i] \notin {"@", " "}
    /\ u[1] # "." /\ u[Len(u)] # "."

EmailDomainPart(d) ==
    \/ d = <<"l", "o", "c", "a", "l", "h", "o", "s", "t">>
    \/ /\ Len(d) > 0
       /\ \A i \in 1..Len(d) : d[i] \notin {"@", " "}
       /\ IndexesOf(d, ".") # {}
       /\ d[1] # "." /\ d[Len(d)] # "."
       /\ \A i \in 1..(Len(d) - 1) : ~(d[i] = "." /\ d[i + 1] = ".")

Email(s) ==
    /\ IndexesOf(s, "@") # {}
    /\ LET k == MaxOf(IndexesOf(s, "@")) IN
       /\ EmailUserPart(SubSeq(s, 1, k - 1))
       /\ EmailDomainPart(SubSeq(s, k + 1, Len(s)))

\* int(value) of fields.Int and Decimal(value) of fields.Decimal accept a
\* string of decimal digits.
Digit == [c \in {"0", "1", "2", "3", "4", "5", "6", "7", "8", "9"} |->
             CASE c = "0" -> 0 [] c = "1" -> 1 [] c = "2" -> 2 [] c = "3" -> 3
               [] c = "4" -> 4 [] c = "5" -> 5 [] c = "6" -> 6 [] c = "7" -> 7
               [] c = "8" -> 8 [] c = "9" -> 9]

IsNumber(s) == Len(s) > 0 /\ \A i \in 1..Len(s) : s[i] \in DOMAIN Digit

RECURSIVE ParseInt(_)
ParseInt(s) ==
    IF s = <<>> THEN 0
    ELSE 10 * ParseInt(SubSeq(s, 1, Len(s) - 1)) + Digit[s[Len(s)]]

\* The number a JSON value deserializes to.
Number(v) == IF v.t = "int" THEN v.n ELSE ParseInt(v.s)

\* UserSchema: the set of fields of the body that fail validation (the keys
\* of ValidationError.messages); all violations are collected.
UserSchema_errors(p) ==
    {f \in {"name", "email"} : p[f].t = "missing"}
    \cup {f \in {"name", "address", "email"} : p[f].t \in {"int", "null"}}
    \cup {f \in {"name"} : p[f].t = "str" /\ ~Length(p[f].s, 1, NameMax)}
    \cup {f \in {"address"} : p[f].t = "str" /\ ~Length(p[f].s, 0, AddressMax)}
    \cup {f \in {"email"} : p[f].t = "str"
                            /\ ~(Email(p[f].s) /\ Length(p[f].s, 0, EmailMax))}
    \cup {f \in {"id"} : p[f].t # "missing"}

\* ProductSchema: price is a Decimal in Range(min=0); a JSON integer is a
\* valid number, a string that is not a number is not.
ProductSchema_errors(p) ==
    {f \in {"product_name", "price"} : p[f].t = "missing"}
    \cup {f \in {"product_name"} : p[f].t \in {"int", "null"}}
    \cup {f \in {"product_name"} :
              p[f].t = "str" /\ ~Length(p[f].s, 1, ProductNameMax)}
    \cup {f \in {"price"} : p[f].t = "null" \/ (p[f].t = "str" /\ ~IsNumber(p[f].s))}
    \cup {f \in {"price"} : p[f].t = "int" /\ ~(p[f].n >= 0)}
    \cup {f \in {"id"} : p[f].t # "missing"}

\* OrderSchema: user_id is a required Int; id and order_date are dump_only.
OrderSchema_errors(p) ==
    {f \in {"user_id"} : p[f].t = "missing"}
    \cup {f \in {"user_id"} : p[f].t = "null" \/ (p[f].t = "str" /\ ~IsNumber(p[f].s))}
    \cup {f \in {"id", "order_date"} : p[f].t # "missing"}

\* ----------------------------------------------------------- request bodies
NameA == <<"A">>
NameB == <<"B">>
AddrX == <<"1", " ", "S", "t">>
EmailA == <<"a", "@", "x", ".", "c", "o", "m">>
EmailB == <<"b", "@", "x", ".", "c", "o", "m">>

UserBody(name, address, email, id) ==
    [name |-> name, address |-> address, email |-> email, id |-> id]

ValidUserPayloads ==
    { UserBody(JStr(NameA), JStr(AddrX), JStr(EmailA), Missing),
      UserBody(JStr(NameB), JStr(AddrX), JStr(EmailA), Missing),
      UserBody(JStr(NameB), JStr(AddrX), JStr(EmailB), Missing),
      UserBody(JStr(NameA), Missing, JStr(EmailB), Missing) }

InvalidUserPayloads ==
    { UserBody(JStr(<<>>), JStr(Repeat("x", AddressMax + 1)),
               JStr(<<"a", "x">>), Missing),
      UserBody(JStr(Repeat("x", NameMax + 1)), JNull, Missing, JInt(1)) }

UserPayloads == ValidUserPayloads \cup InvalidUserPayloads

ProductBody(product_name, price, id) ==
    [product_name |-> product_name, price |-> price, id |-> id]

ValidProductPayloads ==
    { ProductBody(JStr(NameA), JInt(0), Missing),
      ProductBody(JStr(NameB), JStr(<<"5">>), Missing) }

InvalidProductPayloads ==
    { ProductBody(JStr(NameA), JInt(-1), Missing),
      ProductBody(JStr(Repeat("x", ProductNameMax + 1)),
                  JStr(<<"a", "b", "c">>), JInt(1)) }

ProductPayloads == ValidProductPayloads \cup InvalidProductPayloads

OrderBody(user_id, id, order_date) ==
    [user_id |-> user_id, id |-> id, order_date |-> order_date]

OrderPayloads ==
    { OrderBody(JInt(u), Missing, Missing) : u \in 1..MaxId }
    \cup { OrderBody(JStr(<<"1">>), Missing, Missing),
           OrderBody(Missing, Missing, Missing),
           OrderBody(JStr(<<"x">>), JInt(1), JStr(<<"2", "0", "2", "5">>)) }

Ids == 1..MaxId

\* ------------------------------------------------------------------- state
VARIABLES
    users,          \* table users: rows [id, name, address, email]
    products,       \* table products: rows [id, product_name, price]
    orders,         \* table orders: rows [id, user_id]
    order_product,  \* table order_product: a bag of rows <<order_id, product_id>>
    user_seq,       \* AUTO_INCREMENT counters of the three id columns
    product_seq,
    order_seq,
    pc,             \* per worker: "idle", "add", "commit" or "done"
    req,            \* per worker: the request being handled
    session,        \* per worker: the objects its db.session holds
    response,       \* per worker: the response returned
    served          \* number of requests received so far

tables == <<users, products, orders, order_product>>
seqs == <<user_seq, product_seq, order_seq>>
vars == <<users, products, orders, order_product, user_seq, product_seq,
          order_seq, pc, req, session, response, served>>

\* Python's None: a request without a body, a session that holds no object.
None == [none |-> TRUE]

\* The committed rows, as one value.
DB == [users |-> users, products |-> products, orders |-> orders,
       order_product |-> order_product]

NoReq == [op |-> "none", a |-> 0, b |-> 0, data |-> None]
NoSession == [obj |-> None, seen |-> {}]
NoResponse == [status |-> 0, error |-> "", messages |-> {}, data |-> {}]

\* The rows an earlier run of the server left in the database: one user,
\* orders of that user, products, and associations between them.
User1 == [id |-> 1, name |-> NameB, address |-> AddrX, email |-> EmailA]
Order(id) == [id |-> id, user_id |-> 1]
Product(id) == [id |-> id, product_name |-> NameA, price |-> 0]

\* Databases with orders and products and no association yet.
SeededDatabases ==
    { [users |-> {User1},
       orders |-> {Order(i) : i \in os},
       products |-> {Product(i) : i \in ps},
       order_product |-> EmptyBag] :
          os \in SUBSET {1, 2} \ {{}}, ps \in SUBSET {1, 2} \ {{}} }

\* One user, one order of that user and one product, not yet associated.
SeedDB == [users |-> {User1}, orders |-> {Order(1)}, products |-> {Product(1)},
           order_product |-> EmptyBag]

EmptyDB == [users |-> {}, orders |-> {}, products |-> {},
            order_product |-> EmptyBag]

\* The server starts with every worker idle.
Started ==
    /\ pc = [w \in Workers |-> "idle"]
    /\ req = [w \in Workers |-> NoReq]
    /\ session = [w \in Workers |-> NoSession]
    /\ response = [w \in Workers |-> NoResponse]
    /\ served = 0

Database(d, next_user, next_product, next_order) ==
    /\ users = d.users
    /\ products = d.products
    /\ orders = d.orders
    /\ order_product = d.order_product
    /\ user_seq = next_user
    /\ product_seq = next_product
    /\ order_seq = next_order

\* db.create_all() on a new database, or on the database of an earlier run.
Init ==
    /\ Started
    /\ \/ Database(EmptyDB, 1, 1, 1)
       \/ Database(SeedDB, 2, 2, 2)

\* ------------------------------------------------------------ the store
\* db.session.get(Model, id): the row or None.
Exists(rows, id) == \E r \in rows : r.id = id
Get(rows, id) == CHOOSE r \in rows : r.id = id

\* users.email is UNIQUE: another row already holds the value.
email_unique_violated(rows, id, email) ==
    \E u \in rows : u.id # id /\ u.email = email

\* Mutant: the store does not check the foreign key of an inserted order.
user_id_fk_unchecked(rows, user_id) == FALSE

\* orders.user_id REFERENCES users.id: the parent row is missing.
user_id_fk_violated(rows, user_id) == ~Exists(rows, user_id)

\* orders.user_id REFERENCES users.id (RESTRICT): a child row still refers
\* to the user that is being deleted.
user_referenced(rows, user_id) == \E o \in rows : o.user_id = user_id

\* orders.user_id is NOT NULL (Mapped[int]): the flush of a deleted user
\* sets the user_id of each order it loaded to NULL.
user_id_not_null_violated(seen) == seen # {}

\* Mutant: the association table has no primary key.
order_product_pk_unchecked(bag, row) == FALSE

\* order_product (order_id, product_id) is the PRIMARY KEY: the row exists.
order_product_pk_violated(bag, row) == CopiesIn(row, bag) > 0

\* order_product REFERENCES orders.id and products.id: a parent is missing.
order_product_fk_violated(d, row) ==
    ~Exists(d.orders, row[1]) \/ ~Exists(d.products, row[2])

\* Mutant: the store lets a product go while association rows refer to it.
product_referenced_unchecked(bag, product_id) == FALSE

\* order_product.product_id REFERENCES products.id (RESTRICT): an
\* association row still refers to the product that is being deleted.
product_referenced(bag, product_id) ==
    \E row \in BagToSet(bag) : row[2] = product_id

\* db.session.rollback(): the rows as they were before the transaction's
\* statements.
rollback(before, partial) == before

\* Mutant: the teardown commits what the session holds.
shutdown_session_commits(before, dirty) == dirty

\* The session is removed when the request ends (db.init_app registers the
\* teardown): changes that were never committed are discarded.
shutdown_session(before, dirty) == before

\* ----------------------------------------------------------- the workers
Persist(d) ==
    /\ users' = d.users
    /\ products' = d.products
    /\ orders' = d.orders
    /\ order_product' = d.order_product

\* A request arrives at an idle worker.
Accept(w, r) ==
    /\ pc[w] = "idle"
    /\ served < MaxRequests
    /\ served' = served + 1
    /\ req' = [req EXCEPT ![w] = r]

\* The handler returns: the status code, the error it answers, and the rows
\* serialized in the body (one row for a single object, none for a message).
Respond(w, status, error, data) ==
    /\ pc' = [pc EXCEPT ![w] = "done"]
    /\ response' = [response EXCEPT
                       ![w] = [status |-> status, error |-> error,
                               messages |-> {}, data |-> data]]

\* except ValidationError as e: return jsonify(e.messages), 422; the body
\* is keyed by the fields that failed.
Invalid(w, messages) ==
    /\ pc' = [pc EXCEPT ![w] = "done"]
    /\ response' = [response EXCEPT
                       ![w] = [status |-> 422, error |-> "ValidationError",
                               messages |-> messages, data |-> {}]]

\* The handler goes on to db.session.commit() holding obj and seen.
ToCommit(w, obj, seen) ==
    /\ pc' = [pc EXCEPT ![w] = "commit"]
    /\ session' = [session EXCEPT ![w] = [obj |-> obj, seen |-> seen]]
    /\ response' = response

\* The result of a flush: the error raised ("none" when it succeeded) and
\* the rows as the transaction's statements left them.
Flushed(error, d) == [error |-> error, db |-> d]

\* ------------------------------------------------------------------ users
\* GET /users/<user_id>
get_user(w) ==
    \E user_id \in Ids :
        /\ Accept(w, [op |-> "get_user", a |-> user_id, b |-> 0, data |-> None])
        /\ IF ~Exists(users, user_id)
           THEN Respond(w, 404, "User not found", {})
           ELSE Respond(w, 200, "", {Get(users, user_id)})
        /\ UNCHANGED <<tables, seqs, session>>

\* POST /users, up to db.session.add(new_user)
create_user(w) ==
    \E data \in UserPayloads :
        /\ Accept(w, [op |-> "create_user", a |-> 0, b |-> 0, data |-> data])
        /\ IF UserSchema_errors(data) # {}
           THEN Invalid(w, UserSchema_errors(data))
                /\ session' = session
           ELSE IF data.address.t = "missing"
           THEN \* user_data['address'] raises KeyError, which nothing catches
                Respond(w, 500, "KeyError", {}) /\ session' = session
           ELSE ToCommit(w, [name |-> data.name.s, address |-> data.address.s,
                             email |-> data.email.s], {})
        /\ UNCHANGED <<tables, seqs>>

\* INSERT INTO users: the id is drawn from the counter, then UNIQUE(email).
create_user_flush(d, id, obj) ==
    IF email_unique_violated(d.users, id, obj.email)
    THEN Flushed("IntegrityError", d)
    ELSE Flushed("none",
                 [d EXCEPT !.users = @ \cup {[id |-> id, name |-> obj.name,
                                              address |-> obj.address,
                                              email |-> obj.email]}])

\* POST /users, db.session.commit() and the response
create_user_commit(w) ==
    /\ pc[w] = "commit" /\ req[w].op = "create_user"
    /\ LET tx == create_user_flush(DB, user_seq, session[w].obj) IN
       IF tx.error = "none"
       THEN /\ Persist(tx.db)
            /\ Respond(w, 201, "", {Get(tx.db.users, user_seq)})
       ELSE /\ Persist(rollback(DB, tx.db))
            /\ Respond(w, 500, tx.error, {})
    /\ user_seq' = user_seq + 1
    /\ UNCHANGED <<product_seq, order_seq, req, session, served>>

\* Mutant: the body is validated before the user is looked up.
update_user_validates_first(w) ==
    \E user_id \in Ids, data \in UserPayloads :
        /\ Accept(w, [op |-> "update_user", a |-> user_id, b |-> 0, data |-> data])
        /\ IF UserSchema_errors(data) # {}
           THEN Invalid(w, UserSchema_errors(data))
                /\ session' = session
           ELSE IF ~Exists(users, user_id)
           THEN Respond(w, 404, "Invalid user id.", {}) /\ session' = session
           ELSE IF data.address.t = "missing"
           THEN Respond(w, 500, "KeyError", {}) /\ session' = session
           ELSE ToCommit(w, [loaded |-> Get(users, user_id),
                             name |-> data.name.s, address |-> data.address.s,
                             email |-> data.email.s], {})
        /\ UNCHANGED <<tables, seqs>>

\* PUT /users/<user_id>, up to the assignments to the loaded user
update_user(w) ==
    \E user_id \in Ids, data \in UserPayloads :
        /\ Accept(w, [op |-> "update_user", a |-> user_id, b |-> 0, data |-> data])
        /\ IF ~Exists(users, user_id)
           THEN /\ Respond(w, 404, "Invalid user id.", {})
                /\ UNCHANGED <<tables, session>>
           ELSE IF UserSchema_errors(data) # {}
           THEN /\ Invalid(w, UserSchema_errors(data))
                /\ UNCHANGED <<tables, session>>
           ELSE IF data.address.t = "missing"
           THEN \* user.name is assigned, then user_data['address'] raises
                \* KeyError, which nothing catches
                /\ Respond(w, 500, "KeyError", {})
                /\ Persist(shutdown_session(DB,
                       [DB EXCEPT !.users = (@ \ {Get(users, user_id)})
                           \cup {[Get(users, user_id) EXCEPT !.name = data.name.s]}]))
                /\ session' = session
           ELSE /\ ToCommit(w, [loaded |-> Get(users, user_id),
                                name |-> data.name.s, address |-> data.address.s,
                                email |-> data.email.s], {})
                /\ UNCHANGED tables
        /\ UNCHANGED seqs

\* UPDATE users SET <the changed columns> WHERE id = ...: no statement when
\* no attribute changed; StaleDataError when the row is gone; UNIQUE(email).
update_user_flush(d, obj) ==
    LET id == obj.loaded.id
        changed == {f \in {"name", "address", "email"} : obj[f] # obj.loaded[f]}
    IN  IF changed = {} THEN Flushed("none", d)
        ELSE IF ~Exists(d.users, id) THEN Flushed("StaleDataError", d)
        ELSE IF "email" \in changed /\ email_unique_violated(d.users, id, obj.email)
        THEN Flushed("IntegrityError", d)
        ELSE LET row == Get(d.users, id) IN
             Flushed("none",
                     [d EXCEPT !.users = (@ \ {row}) \cup
                         {[id |-> id,
                           name |-> IF "name" \in changed THEN obj.name ELSE row.name,
                           address |-> IF "address" \in changed
                                       THEN obj.address ELSE row.address,
                           email |-> IF "email" \in changed
                                     THEN obj.email ELSE row.email]}])

\* PUT /users/<user_id>, db.session.commit() and the response
update_user_commit(w) ==
    /\ pc[w] = "commit" /\ req[w].op = "update_user"
    /\ LET obj == session[w].obj
           tx == update_user_flush(DB, obj) IN
       IF tx.error = "none"
       THEN /\ Persist(tx.db)
            /\ Respond(w, 200, "", {[id |-> obj.loaded.id, name |-> obj.name,
                                     address |-> obj.address,
                                     email |-> obj.email]})
       ELSE /\ Persist(rollback(DB, tx.db))
            /\ Respond(w, 500, tx.error, {})
    /\ UNCHANGED <<seqs, req, session, served>>

\* DELETE /users/<user_id>, up to db.session.delete(user)
delete_user(w) ==
    \E user_id \in Ids :
        /\ Accept(w, [op |-> "delete_user", a |-> user_id, b |-> 0, data |-> None])
        /\ IF ~Exists(users, user_id)
           THEN Respond(w, 404, "User not found.", {}) /\ session' = session
           ELSE \* user.orders is loaded by the flush, from this snapshot
                ToCommit(w, None, {o.id : o \in {x \in orders : x.user_id = user_id}})
        /\ UNCHANGED <<tables, seqs>>

\* Mutant: the DELETE has no WHERE clause.
delete_user_flush_every_row(d, user_id, seen) ==
    IF user_id_not_null_violated(seen) THEN Flushed("IntegrityError", d)
    ELSE IF ~Exists(d.users, user_id) THEN Flushed("none", d)
    ELSE IF user_referenced(d.orders, user_id) THEN Flushed("IntegrityError", d)
    ELSE Flushed("none", [d EXCEPT !.users = {}])

\* The flush of a deleted user: UPDATE orders SET user_id = NULL for each
\* order of user.orders, then DELETE FROM users WHERE id = ...
delete_user_flush(d, user_id, seen) ==
    IF user_id_not_null_violated(seen) THEN Flushed("IntegrityError", d)
    ELSE IF ~Exists(d.users, user_id) THEN Flushed("none", d)
    ELSE IF user_referenced(d.orders, user_id) THEN Flushed("IntegrityError", d)
    ELSE Flushed("none", [d EXCEPT !.users = @ \ {Get(d.users, user_id)}])

\* DELETE /users/<user_id>, db.session.commit() and the response
delete_user_commit(w) ==
    /\ pc[w] = "commit" /\ req[w].op = "delete_user"
    /\ LET tx == delete_user_flush(DB, req[w].a, session[w].seen) IN
       IF tx.error = "none"
       THEN Persist(tx.db) /\ Respond(w, 200, "", {})
       ELSE Persist(rollback(DB, tx.db)) /\ Respond(w, 500, tx.error, {})
    /\ UNCHANGED <<seqs, req, session, served>>

\* --------------------------------------------------------------- products
\* POST /products, up to db.session.add(new_product)
create_product(w) ==
    \E data \in ProductPayloads :
        /\ Accept(w, [op |-> "create_product", a |-> 0, b |-> 0, data |-> data])
        /\ IF ProductSchema_errors(data) # {}
           THEN Invalid(w, ProductSchema_errors(data))
                /\ session' = session
           ELSE ToCommit(w, [product_name |-> data.product_name.s,
                             price |-> Number(data.price) * PriceScale], {})
        /\ UNCHANGED <<tables, seqs>>

\* INSERT INTO products
create_product_flush(d, id, obj) ==
    Flushed("none",
            [d EXCEPT !.products = @ \cup {[id |-> id,
                                            product_name |-> obj.product_name,
                                            price |-> obj.price]}])

\* POST /products, db.session.commit() and the response
create_product_commit(w) ==
    /\ pc[w] = "commit" /\ req[w].op = "create_product"
    /\ LET tx == create_product_flush(DB, product_seq, session[w].obj) IN
       IF tx.error = "none"
       THEN /\ Persist(tx.db)
            /\ Respond(w, 201, "", {Get(tx.db.products, product_seq)})
       ELSE /\ Persist(rollback(DB, tx.db))
            /\ Respond(w, 500, tx.error, {})
    /\ product_seq' = product_seq + 1
    /\ UNCHANGED <<user_seq, order_seq, req, session, served>>

\* PUT /products/<id>, up to the assignments to the loaded product
update_product(w) ==
    \E id \in Ids, data \in ProductPayloads :
        /\ Accept(w, [op |-> "update_product", a |-> id, b |-> 0, data |-> data])
        /\ IF ~Exists(products, id)
           THEN Respond(w, 404, "Product not found.", {}) /\ session' = session
           ELSE IF ProductSchema_errors(data) # {}
           THEN Invalid(w, ProductSchema_errors(data))
                /\ session' = session
           ELSE ToCommit(w, [loaded |-> Get(products, id),
                             product_name |-> data.product_name.s,
                             price |-> Number(data.price) * PriceScale], {})
        /\ UNCHANGED <<tables, seqs>>

\* UPDATE products SET <the changed columns> WHERE id = ...
update_product_flush(d, obj) ==
    LET id == obj.loaded.id
        changed == {f \in {"product_name", "price"} : obj[f] # obj.loaded[f]}
    IN  IF changed = {} THEN Flushed("none", d)
        ELSE IF ~Exists(d.products, id) THEN Flushed("StaleDataError", d)
        ELSE LET row == Get(d.products, id) IN
             Flushed("none",
                     [d EXCEPT !.products = (@ \ {row}) \cup
                         {[id |-> id,
                           product_name |-> IF "product_name" \in changed
                                            THEN obj.product_name
                                            ELSE row.product_name,
                           price |-> IF "price" \in changed
                                     THEN obj.price ELSE row.price]}])

\* PUT /products/<id>, db.session.commit() and the response
update_product_commit(w) ==
    /\ pc[w] = "commit" /\ req[w].op = "update_product"
    /\ LET obj == session[w].obj
           tx == update_product_flush(DB, obj) IN
       IF tx.error = "none"
       THEN /\ Persist(tx.db)
            /\ Respond(w, 200, "", {[id |-> obj.loaded.id,
                                     product_name |-> obj.product_name,
                                     price |-> obj.price]})
       ELSE /\ Persist(rollback(DB, tx.db))
            /\ Respond(w, 500, tx.error, {})
    /\ UNCHANGED <<seqs, req, session, served>>

\* DELETE /products/<id>, up to db.session.delete(product)
delete_product(w) ==
    \E id \in Ids :
        /\ Accept(w, [op |-> "delete_product", a |-> id, b |-> 0, data |-> None])
        /\ IF ~Exists(products, id)
           THEN Respond(w, 404, "Product not found.", {}) /\ session' = session
           ELSE \* product.orders is loaded by the flush, from this snapshot
                ToCommit(w, None,
                         {row[1] : row \in {x \in BagToSet(order_product) : x[2] = id}})
        /\ UNCHANGED <<tables, seqs>>

\* The rows of order_product without the rows of the set gone.
WithoutRows(bag, gone) ==
    [row \in BagToSet(bag) \ gone |-> bag[row]]

\* The flush of a deleted product: DELETE FROM order_product for each order
\* of product.orders (StaleDataError when the rows matched are not the rows
\* expected), then DELETE FROM products WHERE id = ...
delete_product_flush(d, id, seen) ==
    LET secondary == {<<o, id>> : o \in seen}
        matched == {row \in secondary : CopiesIn(row, d.order_product) > 0}
        d1 == [d EXCEPT !.order_product = WithoutRows(@, matched)]
    IN  IF matched # secondary THEN Flushed("StaleDataError", d1)
        ELSE IF ~Exists(d1.products, id) THEN Flushed("none", d1)
        ELSE IF product_referenced(d1.order_product, id)
        THEN Flushed("IntegrityError", d1)
        ELSE Flushed("none", [d1 EXCEPT !.products = @ \ {Get(d1.products, id)}])

\* DELETE /products/<id>, db.session.commit() and the response
delete_product_commit(w) ==
    /\ pc[w] = "commit" /\ req[w].op = "delete_product"
    /\ LET tx == delete_product_flush(DB, req[w].a, session[w].seen) IN
       IF tx.error = "none"
       THEN Persist(tx.db) /\ Respond(w, 200, "", {})
       ELSE Persist(rollback(DB, tx.db)) /\ Respond(w, 500, tx.error, {})
    /\ UNCHANGED <<seqs, req, session, served>>

\* ----------------------------------------------------------------- orders
\* POST /orders, up to db.session.add(new_order)
create_order(w) ==
    \E data \in OrderPayloads :
        /\ Accept(w, [op |-> "create_order", a |-> 0, b |-> 0, data |-> data])
        /\ IF OrderSchema_errors(data) # {}
           THEN Invalid(w, OrderSchema_errors(data))
                /\ session' = session
           ELSE IF ~Exists(users, Number(data.user_id))
           THEN Respond(w, 404, "User not found.", {}) /\ session' = session
           ELSE ToCommit(w, [user_id |-> Number(data.user_id)], {})
        /\ UNCHANGED <<tables, seqs>>

\* INSERT INTO orders: the id is drawn from the counter, then the foreign key.
create_order_flush(d, id, obj) ==
    IF user_id_fk_violated(d.users, obj.user_id)
    THEN Flushed("IntegrityError", d)
    ELSE Flushed("none",
                 [d EXCEPT !.orders = @ \cup {[id |-> id, user_id |-> obj.user_id]}])

\* POST /orders, db.session.commit() and the response
create_order_commit(w) ==
    /\ pc[w] = "commit" /\ req[w].op = "create_order"
    /\ LET tx == create_order_flush(DB, order_seq, session[w].obj) IN
       IF tx.error = "none"
       THEN /\ Persist(tx.db)
            /\ Respond(w, 201, "", {Get(tx.db.orders, order_seq)})
       ELSE /\ Persist(rollback(DB, tx.db))
            /\ Respond(w, 500, tx.error, {})
    /\ order_seq' = order_seq + 1
    /\ UNCHANGED <<user_seq, product_seq, req, session, served>>

\* PUT /orders/<order_id>/add_product/<product_id>, the two db.session.get
add_product_to_order(w) ==
    \E order_id \in Ids, product_id \in Ids :
        /\ Accept(w, [op |-> "add_product_to_order", a |-> order_id,
                      b |-> product_id, data |-> None])
        /\ IF ~Exists(orders, order_id)
           THEN Respond(w, 404, "Order not found.", {})
           ELSE IF ~Exists(products, product_id)
           THEN Respond(w, 404, "Product not found.", {})
           ELSE pc' = [pc EXCEPT ![w] = "add"] /\ response' = response
        /\ UNCHANGED <<tables, seqs, session>>

\* db.session.add(Order_Product(order_id=..., product_id=...))
add_product_to_order_add(w) ==
    /\ pc[w] = "add" /\ req[w].op = "add_product_to_order"
    /\ ToCommit(w, [order_id |-> req[w].a, product_id |-> req[w].b], {})
    /\ UNCHANGED <<tables, seqs, req, served>>

\* Mutant: check-then-insert, the insert trusts the reads made before it.
add_product_to_order_flush_unconstrained(d, obj) ==
    Flushed("none", [d EXCEPT !.order_product =
                                  @ (+) SetToBag({<<obj.order_id, obj.product_id>>})])

\* INSERT INTO order_product: the primary key, then the foreign keys.
add_product_to_order_flush(d, obj) ==
    LET row == <<obj.order_id, obj.product_id>> IN
    IF order_product_pk_violated(d.order_product, row)
    THEN Flushed("IntegrityError", d)
    ELSE IF order_product_fk_violated(d, row) THEN Flushed("IntegrityError", d)
    ELSE Flushed("none", [d EXCEPT !.order_product = @ (+) SetToBag({row})])

\* PUT /orders/<order_id>/add_product/<product_id>, db.session.commit() and
\* the response: IntegrityError is answered 409, any other error 500.
add_product_to_order_commit(w) ==
    /\ pc[w] = "commit" /\ req[w].op = "add_product_to_order"
    /\ LET tx == add_product_to_order_flush(DB, session[w].obj) IN
       IF tx.error = "none"
       THEN Persist(tx.db) /\ Respond(w, 201, "", {Get(orders, req[w].a)})
       ELSE IF tx.error = "IntegrityError"
       THEN /\ Persist(rollback(DB, tx.db))
            /\ Respond(w, 409, "Product already in order.", {})
       ELSE /\ Persist(rollback(DB, tx.db))
            /\ Respond(w, 500, tx.error, {})
    /\ UNCHANGED <<seqs, req, session, served>>

\* DELETE /orders/<order_id>/remove_product/<product_id>, up to
\* db.session.delete(order_product)
remove_product_from_order(w) ==
    \E order_id \in Ids, product_id \in Ids :
        /\ Accept(w, [op |-> "remove_product_from_order", a |-> order_id,
                      b |-> product_id, data |-> None])
        /\ IF CopiesIn(<<order_id, product_id>>, order_product) = 0
           THEN Respond(w, 404, "Product not found in order.", {})
                /\ session' = session
           ELSE ToCommit(w, [order_id |-> order_id, product_id |-> product_id], {})
        /\ UNCHANGED <<tables, seqs>>

\* DELETE FROM order_product WHERE order_id = ... AND product_id = ...
remove_product_from_order_flush(d, obj) ==
    Flushed("none", [d EXCEPT !.order_product =
                                  WithoutRows(@, {<<obj.order_id, obj.product_id>>})])

\* DELETE /orders/<order_id>/remove_product/<product_id>,
\* db.session.commit() and the response
remove_product_from_order_commit(w) ==
    /\ pc[w] = "commit" /\ req[w].op = "remove_product_from_order"
    /\ LET tx == remove_product_from_order_flush(DB, session[w].obj) IN
       IF tx.error = "none"
       THEN Persist(tx.db) /\ Respond(w, 200, "", {})
       ELSE Persist(rollback(DB, tx.db)) /\ Respond(w, 500, tx.error, {})
    /\ UNCHANGED <<seqs, req, session, served>>

\* GET /orders/user/<user_id>
get_orders_by_user(w) ==
    \E user_id \in Ids :
        /\ Accept(w, [op |-> "get_orders_by_user", a |-> user_id, b |-> 0,
                      data |-> None])
        /\ IF ~Exists(users, user_id)
           THEN \* db.session.get returns None and None.orders raises
                \* AttributeError, which nothing catches
                Respond(w, 500, "AttributeError", {})
           ELSE IF {o \in orders : o.user_id = user_id} = {}
           THEN Respond(w, 404, "No orders found for this user.", {})
           ELSE Respond(w, 200, "", {o \in orders : o.user_id = user_id})
        /\ UNCHANGED <<tables, seqs, session>>

\* ------------------------------------------------------------ the server
\* The response is sent, the session is removed and the worker is free.
finish(w) ==
    /\ pc[w] = "done"
    /\ pc' = [pc EXCEPT ![w] = "idle"]
    /\ req' = [req EXCEPT ![w] = NoReq]
    /\ session' = [session EXCEPT ![w] = NoSession]
    /\ response' = [response EXCEPT ![w] = NoResponse]
    /\ UNCHANGED <<tables, seqs, served>>

Next ==
    \E w \in Concurrent :
        \/ get_user(w)
        \/ create_user(w)
        \/ create_user_commit(w)
        \/ update_user(w)
        \/ update_user_commit(w)
        \/ delete_user(w)
        \/ delete_user_commit(w)
        \/ create_product(w)
        \/ create_product_commit(w)
        \/ update_product(w)
        \/ update_product_commit(w)
        \/ delete_product(w)
        \/ delete_product_commit(w)
        \/ create_order(w)
        \/ create_order_commit(w)
        \/ add_product_to_order(w)
        \/ add_product_to_order_add(w)
        \/ add_product_to_order_commit(w)
        \/ remove_product_from_order(w)
        \/ remove_product_from_order_commit(w)
        \/ get_orders_by_user(w)
        \/ finish(w)

Spec == Init /\ [][Next]_vars

\* Concurrent PUT /orders/<order_id>/add_product/<product_id> requests, one
\* per worker, on a database that holds orders and products.
InitAdd ==
    /\ Started
    /\ \E d \in SeededDatabases : Database(d, 2, 3, 3)

NextAdd ==
    \E w \in Workers :
        \/ add_product_to_order(w)
        \/ add_product_to_order_add(w)
        \/ add_product_to_order_commit(w)

SpecAdd == InitAdd /\ [][NextAdd]_vars

\* ================================================================ claims
\* Worker w has returned from the handler op.
Done(w, op) == pc[w] = "done" /\ req[w].op = op

\* This step is db.session.commit() of worker w in the handler op.
Commits(w, op) == pc[w] = "commit" /\ req[w].op = op /\ pc'[w] = "done"

\* This step is the arrival of a request for the handler op at worker w.
Arrives(w, op) == pc[w] = "idle" /\ pc'[w] # "idle" /\ req'[w].op = op

\* The association rows that refer to a product.
RowsOfProduct(bag, product_id) == {row \in BagToSet(bag) : row[2] = product_id}

\* ---------------------------------------------------------------------- C1
\* C1: a POST /users whose email no user holds returns 201 and inserts the
\* user; a POST /users whose email an existing user holds returns the
\* conflict outcome 409 (not 500) and leaves the users table as it was, the
\* first user included.
C1_DuplicateEmailConflict ==
    [][\A w \in Workers :
          Commits(w, "create_user") =>
             IF \E u \in users : u.email = session[w].obj.email
             THEN response'[w].status = 409 /\ users' = users
             ELSE /\ response'[w].status = 201
                  /\ \E u \in response'[w].data :
                         /\ u.email = session[w].obj.email
                         /\ users' = users \cup {u}]_vars

\* ---------------------------------------------------------------------- C2
\* C2: PUT add_product of a pair (o, p) of an existing order and an existing
\* product that are not associated returns 201 and inserts the row; PUT
\* add_product of a pair that is associated returns 409 and changes
\* nothing; either way order_product holds exactly one row (o, p) afterwards.
C2_AddTwice ==
    [][\A w \in Workers :
          Commits(w, "add_product_to_order") =>
             LET row == <<req[w].a, req[w].b>> IN
             /\ CopiesIn(row, order_product) > 0 =>
                   /\ response'[w].status = 409
                   /\ order_product' = order_product
             /\ (/\ CopiesIn(row, order_product) = 0
                 /\ Exists(orders, row[1]) /\ Exists(products, row[2])) =>
                   response'[w].status = 201
             /\ response'[w].status \in {201, 409} =>
                   CopiesIn(row, order_product') <= 1
             /\ response'[w].status = 201 \/ CopiesIn(row, order_product) > 0 =>
                   CopiesIn(row, order_product') = 1]_vars

\* A second add of a pair was answered 409 and the pair is there once.
C2_Witness ==
    \E w \in Workers :
        /\ Done(w, "add_product_to_order")
        /\ response[w].status = 409
        /\ CopiesIn(<<req[w].a, req[w].b>>, order_product) = 1
        /\ Exists(orders, req[w].a) /\ Exists(products, req[w].b)

\* ---------------------------------------------------------------------- C3
\* C3: every POST /users with a valid body, the bodies without address
\* included, returns 201 with the name and email of the body (and its
\* address when it has one), unless the store refused the email as a
\* duplicate.
C3_ValidPayloadCreates ==
    \A w \in Workers :
        (Done(w, "create_user") /\ UserSchema_errors(req[w].data) = {}
         /\ response[w].error # "IntegrityError") =>
            /\ response[w].status = 201
            /\ \E u \in response[w].data :
                   /\ u.name = req[w].data.name.s
                   /\ u.email = req[w].data.email.s
                   /\ req[w].data.address.t = "str" =>
                         u.address = req[w].data.address.s

\* ---------------------------------------------------------------------- C4
\* C4: GET /orders/user/<user_id> returns 200 with the non-empty set of the
\* user's orders or 404, and nothing else; 404 when the user does not exist.
C4_ListOrdersOutcomes ==
    \A w \in Workers :
        Done(w, "get_orders_by_user") =>
            /\ response[w].status \in {200, 404}
            /\ response[w].status = 200 => response[w].data # {}
            /\ ~Exists(users, req[w].a) => response[w].status = 404

\* ---------------------------------------------------------------------- C5
\* C5: a step changes the tables only if it is the step in which a handler
\* returns 200 or 201: a handler that returns 422, 404, 409 or 500 leaves
\* users, products, orders and order_product as they were, and so does every
\* step before a handler returns.
C5_FailureChangesNothing ==
    [][tables' # tables =>
          \E w \in Workers :
              /\ pc[w] # "done" /\ pc'[w] = "done"
              /\ response'[w].status \in {200, 201}]_vars

\* An update was refused by the store (duplicate email) and rolled back.
C5_Witness ==
    \E w \in Workers :
        /\ Done(w, "update_user")
        /\ response[w].status = 500
        /\ response[w].error = "IntegrityError"
        /\ Exists(users, req[w].a)
        /\ Get(users, req[w].a).email # req[w].data.email.s

\* ---------------------------------------------------------------------- C6
\* C6 as stated: a DELETE of a user or product that returns 200 removes the
\* row with that id from its table and changes no other row of any table,
\* the association rows included.
C6_DeleteOnlyThatRow ==
    [][\A w \in Workers :
          /\ (Commits(w, "delete_user") /\ response'[w].status = 200) =>
                /\ users' = {u \in users : u.id # req[w].a}
                /\ <<products, orders, order_product>>' =
                       <<products, orders, order_product>>
          /\ (Commits(w, "delete_product") /\ response'[w].status = 200) =>
                /\ products' = {p \in products : p.id # req[w].a}
                /\ <<users, orders, order_product>>' =
                       <<users, orders, order_product>>]_vars

\* C6 as amended: a DELETE of a user that returns 200 removes the row with
\* that id and changes nothing else; a DELETE of a product that returns 200
\* removes the row with that id and the association rows that refer to it,
\* and changes no user, no order, no other product and no other association.
C6_DeleteThatRowAndItsAssociations ==
    [][\A w \in Workers :
          /\ (Commits(w, "delete_user") /\ response'[w].status = 200) =>
                /\ users' = {u \in users : u.id # req[w].a}
                /\ <<products, orders, order_product>>' =
                       <<products, orders, order_product>>
          /\ (Commits(w, "delete_product") /\ response'[w].status = 200) =>
                /\ products' = {p \in products : p.id # req[w].a}
                /\ <<users, orders>>' = <<users, orders>>
                /\ order_product' =
                       WithoutRows(order_product,
                                   RowsOfProduct(order_product, req[w].a))]_vars

\* A product that was associated with an order was deleted.
C6_Witness ==
    \E w \in Workers :
        /\ Done(w, "delete_product")
        /\ response[w].status = 200
        /\ session[w].seen # {}
        /\ ~Exists(products, req[w].a)

\* ---------------------------------------------------------------------- C7
\* C7: PUT /users/<id> and PUT /products/<id> with an id that no row has
\* return 404 at once for every body, valid or not, and change no table.
C7_UpdateMissingIsNotFound ==
    [][\A w \in Workers :
          /\ (Arrives(w, "update_user") /\ ~Exists(users, req'[w].a)) =>
                /\ pc'[w] = "done" /\ response'[w].status = 404
                /\ tables' = tables
          /\ (Arrives(w, "update_product") /\ ~Exists(products, req'[w].a)) =>
                /\ pc'[w] = "done" /\ response'[w].status = 404
                /\ tables' = tables]_vars

\* An update of a missing user with an invalid body was answered 404.
C7_Witness ==
    \E w \in Workers :
        /\ Done(w, "update_user")
        /\ response[w].status = 404
        /\ UserSchema_errors(req[w].data) # {}
        /\ ~Exists(users, req[w].a)

\* ---------------------------------------------------------------------- C8
\* C8: among concurrent PUT add_product requests for one pair of an existing
\* order and an existing product that were not associated, as soon as one
\* has returned, exactly one has returned 201, every other that has
\* returned has 409, and order_product holds exactly one row for the pair.
C8_ConcurrentAdds ==
    \A row \in Ids \X Ids :
        LET returned == {w \in Workers :
                            /\ Done(w, "add_product_to_order")
                            /\ <<req[w].a, req[w].b>> = row
                            /\ response[w].status # 404}
        IN  returned # {} =>
               /\ \A w \in returned : response[w].status \in {201, 409}
               /\ Cardinality({w \in returned : response[w].status = 201}) = 1
               /\ CopiesIn(row, order_product) = 1

\* Three requests for one pair have returned: one 201 and two 409.
C8_Witness ==
    \E row \in Ids \X Ids :
        /\ \A w \in Workers :
              Done(w, "add_product_to_order") /\ <<req[w].a, req[w].b>> = row
        /\ Cardinality({w \in Workers : response[w].status = 409}) = 2
        /\ Cardinality({w \in Workers : response[w].status = 201}) = 1

\* ---------------------------------------------------------------------- C9
\* C9: in every reachable state every row of order_product refers to an
\* order and to a product that exist.
C9_AssociationsReferToLiveRows ==
    \A row \in BagToSet(order_product) :
        Exists(orders, row[1]) /\ Exists(products, row[2])

\* A DELETE of a product raced with an add of that product and was refused.
C9_Witness ==
    \E w \in Workers :
        /\ Done(w, "delete_product")
        /\ response[w].error = "IntegrityError"
        /\ session[w].seen = {}
        /\ RowsOfProduct(order_product, req[w].a) # {}

\* --------------------------------------------------------------------- C10
\* C10: after every step every order's user_id is the id of a user that
\* exists; a POST /orders for a user that does not exist returns 404 and
\* inserts nothing; a POST /orders whose user is gone at the commit inserts
\* nothing; a DELETE of a user who owns orders is refused (500) and leaves
\* users and orders as they were.
C10_OrdersReferToLiveUsers ==
    [][/\ \A o \in orders' : Exists(users', o.user_id)
       /\ \A w \in Workers :
             /\ (/\ Arrives(w, "create_order")
                 /\ OrderSchema_errors(req'[w].data) = {}
                 /\ ~Exists(users, Number(req'[w].data.user_id))) =>
                   /\ pc'[w] = "done" /\ response'[w].status = 404
                   /\ orders' = orders
             /\ (/\ Commits(w, "create_order")
                 /\ ~Exists(users, session[w].obj.user_id)) =>
                   response'[w].status = 500 /\ orders' = orders
             /\ (/\ Commits(w, "delete_user")
                 /\ \E o \in orders : o.user_id = req[w].a) =>
                   /\ response'[w].status = 500
                   /\ users' = users /\ orders' = orders]_vars

\* A DELETE of a user who owns an order was refused, the user is still there.
C10_Witness ==
    \E w \in Workers :
        /\ Done(w, "delete_user")
        /\ response[w].status = 500
        /\ Exists(users, req[w].a)
        /\ \E o \in orders : o.user_id = req[w].a

====
